---------------------------- MODULE Spec2Model ----------------------------
(***************************************************************************)
(* A model of the AI-Agent-Dashboard query / search / parse pipeline:      *)
(*   src/api_call.py  search_query, call_llm_with_huggingface,             *)
(*                    parse_results_with_llm                               *)
(*   src/app.py       the session state, dynamic_query_input,              *)
(*                    automated_web_search_and_parse,                      *)
(*                    display_and_store_results, main                      *)
(* Python strings are sequences of one-character strings, None is the      *)
(* empty sequence <<>> of an optional value and Some(x) is <<x>>.          *)
(***************************************************************************)
EXTENDS Integers, Sequences, FiniteSets, TLC

VARIABLES sq, pl, qb, batch, session, widgets

vars == <<sq, pl, qb, batch, session, widgets>>

(***************************************************************************)
(* Bounds of the model.                                                    *)
(***************************************************************************)
MaxMaxRetries == 2
MaxBlocks == 6
MaxAnswerLen == 6
MaxAffixLen == 1
MaxEntityLen == 3
MaxEntities == 3

(***************************************************************************)
(* Python values and strings.                                              *)
(***************************************************************************)
None == <<>>
Some(x) == <<x>>

LowerSeq == <<"a","b","c","d","e","f","g","h","i","j","k","l","m",
              "n","o","p","q","r","s","t","u","v","w","x","y","z">>
UpperSeq == <<"A","B","C","D","E","F","G","H","I","J","K","L","M",
              "N","O","P","Q","R","S","T","U","V","W","X","Y","Z">>
DigitSeq == <<"0","1","2","3","4","5","6","7","8","9">>

Range(s) == {s[i] : i \in 1..Len(s)}
LowerLetters == Range(LowerSeq)
UpperLetters == Range(UpperSeq)
Letters == LowerLetters \cup UpperLetters
Digits == Range(DigitSeq)

\* str.lower() of one character
LowerOf == [c \in UpperLetters |-> LowerSeq[CHOOSE i \in 1..Len(UpperSeq) : UpperSeq[i] = c]]
LowerChar(c) == IF c \in UpperLetters THEN LowerOf[c] ELSE c

\* str.lower()
Lower(s) == [i \in 1..Len(s) |-> LowerChar(s[i])]

\* s.startswith(sub, i - 1): sub occurs in s at position i
OccursAt(s, sub, i) ==
    /\ i >= 1
    /\ i + Len(sub) - 1 <= Len(s)
    /\ \A k \in 1..Len(sub) : s[i + k - 1] = sub[k]

\* sub in s
Contains(s, sub) == \E i \in 1..(Len(s) + 1) : OccursAt(s, sub, i)

\* s.find(sub, i - 1) + 1: the first position at or after i where sub occurs, or 0
RECURSIVE Find(_, _, _)
Find(s, sub, i) ==
    IF i + Len(sub) - 1 > Len(s) THEN 0
    ELSE IF OccursAt(s, sub, i) THEN i ELSE Find(s, sub, i + 1)

\* str.replace(old, new) for a non-empty old: left to right, non-overlapping
RECURSIVE ReplaceFrom(_, _, _, _)
ReplaceFrom(s, old, new, i) ==
    LET k == Find(s, old, i)
    IN IF k = 0 THEN SubSeq(s, i, Len(s))
       ELSE SubSeq(s, i, k - 1) \o new \o ReplaceFrom(s, old, new, k + Len(old))

Replace(s, old, new) == ReplaceFrom(s, old, new, 1)

\* number of non-overlapping occurrences, str.count(sub)
RECURSIVE CountFrom(_, _, _)
CountFrom(s, sub, i) ==
    LET k == Find(s, sub, i)
    IN IF k = 0 THEN 0 ELSE 1 + CountFrom(s, sub, k + Len(sub))

Count(s, sub) == CountFrom(s, sub, 1)

\* str() of a non-negative int: its decimal digits
RECURSIVE IntStr(_)
IntStr(n) == IF n < 10 THEN <<DigitSeq[n + 1]>>
             ELSE IntStr(n \div 10) \o <<DigitSeq[(n % 10) + 1]>>

\* An entity value is a string (tag "s") or an int (tag "i"), as a cell of a
\* pandas column is.
StrVal(s) == [t |-> "s", v |-> s]
IntVal(n) == [t |-> "i", v |-> <<n>>]

\* str(entity)
Str(e) == IF e.t = "i" THEN IntStr(e.v[1]) ELSE e.v

Placeholder == <<"{","e","n","t","i","t","y","}">>

\* src/app.py line 118 (and line 84, the same expression)
BuildQuery(query_template, entity) == Replace(query_template, Placeholder, Str(entity))

(***************************************************************************)
(* str.format(entity=entity), src/api_call.py line 50.  The format string  *)
(* is scanned left to right: "{{" and "}}" are literal braces, "{name}"    *)
(* is a replacement field, a lone "}" or an unclosed "{" is a ValueError,  *)
(* a field named entity is the keyword argument, an empty or numeric field *)
(* name indexes the (empty) positional arguments: IndexError, any other    *)
(* name is a KeyError.  The field names of the model hold no "!", ":",     *)
(* "." or "[".                                                             *)
(***************************************************************************)
Ok(v) == [exc |-> "none", val |-> v]
Raise(e) == [exc |-> e, val |-> <<>>]

\* the position of the first "}" at or after i, or 0
RECURSIVE CloseFrom(_, _)
CloseFrom(s, i) ==
    IF i > Len(s) THEN 0
    ELSE IF s[i] = "}" THEN i ELSE CloseFrom(s, i + 1)

FieldValue(name, entity) ==
    IF name = <<"e","n","t","i","t","y">> THEN Ok(Str(entity))
    ELSE IF name = <<>> \/ Range(name) \subseteq Digits THEN Raise("IndexError")
    ELSE IF "{" \in Range(name) THEN Raise("ValueError")
    ELSE Raise("KeyError")

RECURSIVE FormatFrom(_, _, _)
FormatFrom(s, entity, i) ==
    IF i > Len(s) THEN Ok(<<>>)
    ELSE IF s[i] = "{"
    THEN IF i < Len(s) /\ s[i + 1] = "{"
         THEN LET r == FormatFrom(s, entity, i + 2)
              IN IF r.exc = "none" THEN Ok(<<"{">> \o r.val) ELSE r
         ELSE LET c == CloseFrom(s, i + 1)
              IN IF c = 0 THEN Raise("ValueError")
                 ELSE LET f == FieldValue(SubSeq(s, i + 1, c - 1), entity)
                          r == FormatFrom(s, entity, c + 1)
                      IN IF f.exc # "none" THEN f
                         ELSE IF r.exc # "none" THEN r
                         ELSE Ok(f.val \o r.val)
    ELSE IF s[i] = "}"
    THEN IF i < Len(s) /\ s[i + 1] = "}"
         THEN LET r == FormatFrom(s, entity, i + 2)
              IN IF r.exc = "none" THEN Ok(<<"}">> \o r.val) ELSE r
         ELSE Raise("ValueError")
    ELSE LET r == FormatFrom(s, entity, i + 1)
         IN IF r.exc = "none" THEN Ok(<<s[i]>> \o r.val) ELSE r

Format(s, entity) == FormatFrom(s, entity, 1)


(***************************************************************************)
(* search_query, src/api_call.py lines 37-88.                              *)
(***************************************************************************)
DefaultMaxRetries == 5
ResultLimit == 5

NoTitle == <<"N","o"," ","t","i","t","l","e"," ","a","v","a","i","l","a","b","l","e">>
NoLink == <<"N","o"," ","l","i","n","k"," ","a","v","a","i","l","a","b","l","e">>
NoSnippet == <<"N","o"," ","s","n","i","p","p","e","t"," ","a","v","a","i","l","a","b",
               "l","e">>
EmailWord == <<"e","m","a","i","l">>

\* A result block of the page (an element matching ".g"): h3 and snip are the
\* text of its h3 and .VwiC3b elements, None when select_one finds none; a is
\* None, or the attributes of its first anchor: Some(href) or None.
Block(h3, a, snip) == [h3 |-> h3, a |-> a, snip |-> snip]

BlockKinds ==
    { Block(Some(<<"T">>), Some(Some(<<"u">>)),
            Some(<<"E","m","a","i","l",":"," ","a","@","b",".","c","o">>)),
      Block(None, None, Some(<<"N","o"," ","E","M","A","I","L","S">>)),
      Block(Some(<<"R">>), Some(Some(<<"v">>)), None),
      Block(Some(<<"S">>), Some(None), Some(<<"e","-","m","a","i","l"," ","e","m","a","i","l">>)) }

\* all sequences over S of length at most n
RECURSIVE SeqsUpTo(_, _)
SeqsUpTo(S, n) ==
    IF n = 0 THEN {<<>>}
    ELSE LET shorter == SeqsUpTo(S, n - 1)
         IN shorter \cup {Append(q, x) : q \in {r \in shorter : Len(r) = n - 1}, x \in S}

Pages == SeqsUpTo(BlockKinds, MaxBlocks)

\* What one requests.get call can do: raise a requests exception, or answer
\* with a status and a page.
GetRaises == {"ConnectionError", "Timeout"}
Statuses == {200, 429, 503}
Responses ==
    [raised : GetRaises, status : {0}, page : {<<>>}]
        \cup [raised : {"none"}, status : {429, 503}, page : {<<>>}]
        \cup [raised : {"none"}, status : {200}, page : Pages]

\* the request failed: a network error or a status that is not 2xx
RequestFailed(resp) == resp.raised # "none" \/ ~(resp.status >= 200 /\ resp.status < 300)

\* response.raise_for_status(): HTTPError for a 4xx or 5xx status
RaiseForStatus(status) == IF status >= 400 /\ status < 600 THEN "HTTPError" ELSE "none"

\* lines 67-69: the three fields of one block; the anchor of a block that has
\* one is indexed with ["href"], a KeyError when the attribute is missing
BlockFields(entity, b) ==
    LET title == IF b.h3 # None THEN b.h3[1] ELSE NoTitle
        snippet == IF b.snip # None THEN b.snip[1] ELSE NoSnippet
    IN IF b.a # None /\ b.a[1] = None THEN Raise("KeyError")
       ELSE Ok([entity |-> entity, title |-> title,
                link |-> IF b.a # None THEN b.a[1][1] ELSE NoLink,
                snippet |-> snippet])

\* line 70
KeepsMutant(snippet) == Contains(snippet, EmailWord)
Keeps(snippet) == Contains(Lower(snippet), EmailWord)

\* lines 63-77: the loop over enumerate(soup.select(".g"))
RECURSIVE ParseBlocks(_, _, _)
ParseBlocks(entity, page, i) ==
    IF i > Len(page) \/ i - 1 >= ResultLimit THEN Ok(<<>>)
    ELSE LET f == BlockFields(entity, page[i])
         IN IF f.exc # "none" THEN f
            ELSE LET r == ParseBlocks(entity, page, i + 1)
                 IN IF r.exc # "none" THEN r
                    ELSE IF Keeps(f.val.snippet) THEN Ok(<<f.val>> \o r.val)
                    ELSE r

\* lines 60-77: the body of the try block for one response
TryBody(entity, resp) ==
    IF resp.raised # "none" THEN Raise(resp.raised)
    ELSE IF RaiseForStatus(resp.status) # "none" THEN Raise(RaiseForStatus(resp.status))
    ELSE ParseBlocks(entity, resp.page, 1)

\* line 79: except requests.exceptions.RequestException
RequestExceptions == {"ConnectionError", "Timeout", "HTTPError"}
IsCaughtMutant(exc) == exc \in {"ConnectionError", "Timeout"}
IsCaught(exc) == exc \in RequestExceptions

\* line 58
LoopGuardMutant(retries, max_retries) == retries <= max_retries
LoopGuard(retries, max_retries) == retries < max_retries

\* line 84
NextBackoffMutant(backoff_time) == backoff_time + 2
NextBackoff(backoff_time) == backoff_time * 2

\* The frame of one call: the arguments, the locals (query, retries,
\* backoff_time), what the call did to the outside (calls: the requests.get
\* calls made; slept: the arguments of time.sleep; log: the levels logged;
\* hist: whether each request failed; last: the last response) and how it
\* ended (ret or exc; at: the place of the raise).
SqIdle ==
    [pc |-> "idle", entity |-> StrVal(<<>>), custom_prompt |-> <<>>, max_retries |-> 0,
     query |-> <<>>, retries |-> 0, backoff_time |-> 0, calls |-> 0, slept |-> <<>>,
     log |-> <<>>, hist |-> <<>>, last |-> <<>>, ret |-> <<>>, exc |-> "none",
     at |-> "none"]

SqEntities == {StrVal(<<"A">>)}
SqPrompts == {<<"m","a","i","l"," ","A">>, <<"{","A","}">>}
SqMaxRetries == (0..MaxMaxRetries) \cup {DefaultMaxRetries}

\* the call search_query(entity, custom_prompt, max_retries)
SqCall(entity, custom_prompt, max_retries) ==
    [SqIdle EXCEPT !.pc = "called", !.entity = entity, !.custom_prompt = custom_prompt,
                   !.max_retries = max_retries]

\* lines 50-56
SqEnter ==
    /\ sq.pc = "called"
    /\ LET q == Format(sq.custom_prompt, sq.entity)
       IN sq' = IF q.exc # "none"
                THEN [sq EXCEPT !.pc = "raised", !.exc = q.exc, !.at = "format"]
                ELSE [sq EXCEPT !.pc = "loop", !.query = q.val, !.retries = 0,
                                !.backoff_time = 1]
    /\ UNCHANGED <<pl, qb, batch, session, widgets>>

\* lines 58-84: one iteration of the while loop, given what the request does
SqIterate(s, resp) ==
    LET r == TryBody(s.entity, resp)
        t == [s EXCEPT !.calls = @ + 1, !.last = Some(resp),
                       !.hist = Append(@, IF RequestFailed(resp) THEN "fail" ELSE "ok")]
    IN IF r.exc = "none"
       THEN [t EXCEPT !.pc = "returned", !.ret = r.val]
       ELSE IF IsCaught(r.exc)
       THEN [t EXCEPT !.log = Append(@, "warning"),
                      !.slept = Append(@, s.backoff_time),
                      !.retries = @ + 1,
                      !.backoff_time = NextBackoff(@)]
       ELSE [t EXCEPT !.pc = "raised", !.exc = r.exc, !.at = "attempt"]

SqAttempt ==
    /\ sq.pc = "loop"
    /\ LoopGuard(sq.retries, sq.max_retries)
    /\ \E resp \in Responses : sq' = SqIterate(sq, resp)
    /\ UNCHANGED <<pl, qb, batch, session, widgets>>

\* lines 86-88
SqExhausted ==
    /\ sq.pc = "loop"
    /\ ~LoopGuard(sq.retries, sq.max_retries)
    /\ sq' = [sq EXCEPT !.pc = "returned", !.log = Append(@, "error"), !.ret = <<>>]
    /\ UNCHANGED <<pl, qb, batch, session, widgets>>

(***************************************************************************)
(* call_llm_with_huggingface and parse_results_with_llm, src/api_call.py   *)
(* lines 93-163.                                                           *)
(***************************************************************************)
NoResultsMessage == <<"N","o"," ","r","e","s","u","l","t","s"," ","t","o"," ","p","a","r","s",
                      "e",".">>
FailedMessage ==
    <<"F","a","i","l","e","d"," ","t","o"," ","g","e","t"," ","a"," ","r","e",
      "s","p","o","n","s","e"," ","f","r","o","m"," ","t","h","e"," ","H",
      "u","g","g","i","n","g"," ","F","a","c","e"," ","m","o","d","e","l",
      ".">>
ErrorMessage ==
    <<"E","r","r","o","r"," ","d","u","r","i","n","g"," ","p","a","r","s","i",
      "n","g"," ","o","f"," ","r","e","s","u","l","t","s",".">>
Caveat ==
    <<"(","E","x","a","c","t"," ","e","m","a","i","l"," ","n","o","t"," ","f",
      "o","u","n","d"," ","b","e","c","a","u","s","e"," ","L","L","M"," ",
      "m","a","y"," ","n","o","t"," ","h","a","v","e"," ","f","o","u","n",
      "d"," ","r","e","l","e","v","a","n","t"," ","d","a","t","a"," ","t",
      "o"," ","e","x","t","r","a","c","t"," ","e","m","a","i","l",".",")">>
BasePrompt ==
    <<"E","x","t","r","a","c","t"," ","t","h","e"," ","e","m","a","i","l"," ",
      "a","d","d","r","e","s","s"," ","f","o","r"," ","t","h","e"," ","g",
      "i","v","e","n"," ","E","n","t","i","t","y"," ","f","r","o","m"," ",
      "t","h","e"," ","f","o","l","l","o","w","i","n","g"," ","s","e","a",
      "r","c","h"," ","r","e","s","u","l","t","s"," ","i","f"," ","e","m",
      "a","i","l"," ","n","o","t"," ","f","o","u","n","d"," ","t","h","e",
      "n"," ","r","e","t","u","r","n"," ","t","h","e"," ","s","n","i","p",
      "p","e","t",":">>

\* line 148: email_pattern = [a-zA-Z0-9._%+-]+@[a-zA-Z0-9.-]+\.[a-zA-Z]{2,}
LocalChars == Letters \cup Digits \cup {".", "_", "%", "+", "-"}
DomainChars == Letters \cup Digits \cup {".", "-"}

\* the end of the longest run of characters of S that starts at i (i - 1
\* when s[i] is not in S): what a greedy [S]* consumes
RECURSIVE RunEnd(_, _, _)
RunEnd(s, i, S) ==
    IF i <= Len(s) /\ s[i] \in S THEN RunEnd(s, i + 1, S) ELSE i - 1

\* The end of the match of email_pattern that starts at i, or 0.  The local
\* part is the whole run before the "@" (a shorter one is followed by a
\* local character, not by "@"); the greedy domain part backtracks to the
\* last "." of its run that two letters follow; the letters are greedy.
MatchEnd(s, i) ==
    LET le == RunEnd(s, i, LocalChars)
        de == RunEnd(s, le + 2, DomainChars)
        dots == {k \in (le + 3)..de :
                    /\ s[k] = "."
                    /\ k + 2 <= Len(s)
                    /\ s[k + 1] \in Letters
                    /\ s[k + 2] \in Letters}
    IN IF le < i \/ le + 1 > Len(s) \/ s[le + 1] # "@" \/ dots = {} THEN 0
       ELSE RunEnd(s, (CHOOSE k \in dots : \A j \in dots : j <= k) + 1, Letters)

\* re.findall(email_pattern, s): the non-overlapping matches, left to right
RECURSIVE FindAllFrom(_, _)
FindAllFrom(s, i) ==
    IF i > Len(s) THEN <<>>
    ELSE LET e == MatchEnd(s, i)
         IN IF e = 0 THEN FindAllFrom(s, i + 1)
            ELSE <<SubSeq(s, i, e)>> \o FindAllFrom(s, e + 1)

FindAll(s) == FindAllFrom(s, 1)

\* lines 108-116: the generator raises, or answers; either way a str is returned
CallLlmMutant(outcome) ==
    IF outcome.raised THEN Raise("Exception") ELSE Ok(outcome.answer)
CallLlm(outcome) ==
    IF outcome.raised THEN Ok(FailedMessage) ELSE Ok(outcome.answer)

\* lines 137-139: the context, one block of labelled fields per result; a
\* result dict without one of the four keys is a KeyError
ResultKeys == {"entity", "title", "link", "snippet"}
RECURSIVE ContextFrom(_, _)
ContextFrom(results, i) ==
    IF i > Len(results) THEN Ok(<<>>)
    ELSE IF ~(ResultKeys \subseteq DOMAIN results[i]) THEN Raise("KeyError")
    ELSE LET r == ContextFrom(results, i + 1)
             b == <<"E","n","t","i","t","y",":"," ">> \o Str(results[i].entity)
                  \o <<"\n","T","i","t","l","e",":"," ">> \o results[i].title
                  \o <<"\n","L","i","n","k",":"," ">> \o results[i].link
                  \o <<"\n","S","n","i","p","p","e","t",":"," ">> \o results[i].snippet
                  \o <<"\n","\n">>
         IN IF r.exc # "none" THEN r ELSE Ok(b \o r.val)

\* lines 152-159: the body of the try block after the model call; result is
\* the loop variable of line 138, the last result
SuccessTest(response, matches) ==
    response # <<>> /\ (matches # <<>> \/ Contains(response, <<"@">>))

Assemble(response, result) ==
    LET matches == FindAll(response)
    IN IF SuccessTest(response, matches)
       THEN IF matches = <<>> THEN Raise("IndexError")
            ELSE Ok(response \o matches[1] \o result.link \o result.snippet)
       ELSE Ok(response \o result.link \o result.snippet \o Caveat)

\* lines 143-163: try / except Exception
ParseTry(called, result) ==
    IF called.exc # "none" THEN Ok(ErrorMessage)
    ELSE LET r == Assemble(called.val, result)
         IN IF r.exc # "none" THEN Ok(ErrorMessage) ELSE r

\* The frame of one call of parse_results_with_llm: the argument, what the
\* generator was asked and did (outcome), the response of
\* call_llm_with_huggingface, and how the call ended.
PlIdle ==
    [pc |-> "idle", results |-> <<>>, asked |-> None, outcome |-> None,
     response |-> None, ret |-> <<>>, exc |-> "none"]

PlResult(title, link, snippet) ==
    [entity |-> StrVal(<<"A">>), title |-> title, link |-> link, snippet |-> snippet]
R1 == PlResult(<<"T">>, <<"u">>, <<"E","m","a","i","l",":"," ","a","@","b",".","c","o">>)
R2 == PlResult(NoTitle, NoLink, <<"N","o"," ","E","M","A","I","L","S">>)
RNoSnippet == [entity |-> StrVal(<<"A">>), title |-> <<"T">>, link |-> <<"u">>]
ResultLists == {<<>>, <<R1>>, <<R1, R2>>, <<R2, R1>>, <<RNoSnippet>>}

\* what the generator can do: raise, or answer with a string
AnswerChars == {"a", "@", ".", " "}
Answers == SeqsUpTo(AnswerChars, MaxAnswerLen)
ModelOutcomes ==
    {[raised |-> TRUE, answer |-> <<>>]} \cup [raised : {FALSE}, answer : Answers]

\* lines 129-140
PlEnter ==
    /\ pl.pc = "called"
    /\ LET c == ContextFrom(pl.results, 1)
       IN pl' = IF pl.results = <<>>
                THEN [pl EXCEPT !.pc = "done", !.ret = NoResultsMessage]
                ELSE IF c.exc # "none"
                THEN [pl EXCEPT !.pc = "raised", !.exc = c.exc]
                ELSE [pl EXCEPT !.pc = "ask",
                                !.asked = Some([question |-> BasePrompt, context |-> c.val])]
    /\ UNCHANGED <<sq, qb, batch, session, widgets>>

\* line 144 and lines 108-116: the model is invoked and call_llm_with_huggingface returns
PlCallLlm ==
    /\ pl.pc = "ask"
    /\ \E outcome \in ModelOutcomes :
         pl' = [pl EXCEPT !.pc = "answered", !.outcome = Some(outcome),
                          !.response = Some(CallLlm(outcome))]
    /\ UNCHANGED <<sq, qb, batch, session, widgets>>

\* lines 147-163
PlFinish ==
    /\ pl.pc = "answered"
    /\ pl' = [pl EXCEPT !.pc = "done",
                        !.ret = ParseTry(pl.response[1], pl.results[Len(pl.results)]).val]
    /\ UNCHANGED <<sq, qb, batch, session, widgets>>


(***************************************************************************)
(* The session state, src/app.py lines 19-30, and the batch loop of        *)
(* automated_web_search_and_parse, src/app.py lines 111-151.               *)
(***************************************************************************)
\* lines 19-30
SessionInit ==
    [data |-> None, selected_column |-> None, generated_queries |-> None,
     parsed_results |-> None, data_source |-> None, query_template |-> None]

NotAvailable == <<"N","/","A">>

\* A dict is a sequence of <<key, value>> pairs in insertion order.
DictKeys(d) == [k \in 1..Len(d) |-> d[k][1]]
DictSet(d, key, value) ==
    IF \E k \in 1..Len(d) : d[k][1] = key
    THEN [k \in 1..Len(d) |-> IF d[k][1] = key THEN <<key, value>> ELSE d[k]]
    ELSE Append(d, <<key, value>>)

\* result.get(key, "N/A") of a result dict (a record of the keys it holds)
Get(d, key) == IF key \in DOMAIN d THEN d[key] ELSE NotAvailable

\* line 126: isinstance(search_results, list) and all(isinstance(result, dict) ...)
IsListOfDicts(v) ==
    v.type = "list" /\ \A k \in 1..Len(v.items) : v.items[k].isdict

\* lines 128-136
Structured(entity, v) ==
    [k \in 1..Len(v.items) |->
        [entity |-> entity, title |-> Get(v.items[k].d, "title"),
         link |-> Get(v.items[k].d, "link"), snippet |-> Get(v.items[k].d, "snippet")]]

\* The frame of the batch: the locals of lines 111-115, the loop position i,
\* the calls made (searched: the arguments of search_query; parsed: the
\* arguments of parse_results_with_llm), the outcome met for each entity and
\* the messages shown.
BatchIdle ==
    [pc |-> "idle", query_template |-> <<>>, unique_entities |-> <<>>, i |-> 1,
     results_storage |-> <<>>, searched |-> <<>>, parsed |-> <<>>, outcomes |-> <<>>,
     messages |-> <<>>]

\* lines 144-147: the handler logs, shows the error and continues
AfterExceptionMutant(b, entity) ==
    [b EXCEPT !.messages = Append(@, <<"error", entity>>),
              !.i = Len(b.unique_entities) + 1]
AfterException(b, entity) ==
    [b EXCEPT !.messages = Append(@, <<"error", entity>>), !.i = @ + 1]

\* lines 117-147: one iteration of the loop, given what search_query and
\* parse_results_with_llm do for this entity
LoopBody(b, outcome) ==
    LET entity == b.unique_entities[b.i]
        query == BuildQuery(b.query_template, entity)
        c == [b EXCEPT !.messages = Append(@, <<"searching", entity>>),
                       !.searched = Append(@, <<entity, query>>),
                       !.outcomes = Append(@, outcome)]
    IN IF outcome.search.exc # "none" THEN AfterException(c, entity)
       ELSE IF IsListOfDicts(outcome.search.val)
       THEN LET structured_results == Structured(entity, outcome.search.val)
                d == [c EXCEPT !.parsed = Append(@, structured_results)]
            IN IF outcome.parse.exc # "none" THEN AfterException(d, entity)
               ELSE [d EXCEPT !.results_storage = DictSet(@, entity, outcome.parse.val),
                              !.i = @ + 1]
       ELSE [c EXCEPT !.messages = Append(@, <<"no valid results", entity>>),
                      !.i = @ + 1]

\* what search_query and parse_results_with_llm can do for one entity
Item(d) == [isdict |-> TRUE, d |-> d]
NotADict == [isdict |-> FALSE, d |-> [value |-> <<"x">>]]
SearchOutcomes ==
    { Raise("KeyError"),
      Ok([type |-> "list", items |-> <<>>]),
      Ok([type |-> "list",
          items |-> <<Item([title |-> <<"T">>, link |-> <<"u">>,
                            snippet |-> <<"e","m","a","i","l">>]),
                      Item([title |-> <<"S">>])>>]),
      Ok([type |-> "list", items |-> <<Item([title |-> <<"T">>]), NotADict>>]),
      Ok([type |-> "NoneType", items |-> <<>>]) }
ParseOutcomes == {Raise("RuntimeError"), Ok(NoResultsMessage), Ok(<<"a","@","b",".","c","o">>)}

\* parse_results_with_llm is called only for a list of dicts, and an empty
\* list gets the fixed message
BatchOutcomes ==
    {[search |-> so, parse |-> po] : so \in SearchOutcomes, po \in ParseOutcomes}

Consistent(outcome) ==
    IF outcome.search.exc = "none" /\ IsListOfDicts(outcome.search.val)
    THEN (outcome.search.val.items = <<>>) = (outcome.parse = Ok(NoResultsMessage))
    ELSE outcome.parse = Ok(NoResultsMessage)

\* lines 111-115
BatchStart(query_template, unique_entities) ==
    [BatchIdle EXCEPT !.pc = "loop", !.query_template = query_template,
                      !.unique_entities = unique_entities]

\* lines 117-147
BatchIterate ==
    /\ batch.pc = "loop"
    /\ batch.i <= Len(batch.unique_entities)
    /\ \E outcome \in {o \in BatchOutcomes : Consistent(o)} :
         batch' = LoopBody(batch, outcome)
    /\ UNCHANGED <<sq, pl, qb, session, widgets>>

\* lines 149-151
BatchFinish ==
    /\ batch.pc = "loop"
    /\ batch.i > Len(batch.unique_entities)
    /\ batch' = [batch EXCEPT !.pc = "done",
                              !.messages = Append(@, <<"success", StrVal(<<>>)>>)]
    /\ session' = [session EXCEPT !.parsed_results = Some(batch.results_storage)]
    /\ UNCHANGED <<sq, pl, qb, widgets>>

\* the distinct values of a column, each a value of its own
EntityPool == {StrVal(<<LowerSeq[k]>>) : k \in 1..(MaxEntities - 1)} \cup {IntVal(7)}
EntityLists ==
    {q \in SeqsUpTo(EntityPool, MaxEntities) :
        \A m, n \in 1..Len(q) : m # n => q[m] # q[n]}

DefaultTemplate ==
    <<"G","e","t"," ","m","e"," ","t","h","e"," ","e","m","a","i","l"," ","a",
      "d","d","r","e","s","s"," ","o","f"," ","{","e","n","t","i","t","y",
      "}"," ","c","o","m","p","a","n","y"," ","f","o","r"," ","c","o","n",
      "t","a","c","t","i","n","g"," ","t","h","e","m">>

(***************************************************************************)
(* The dashboard, src/app.py lines 46-271: one run of the script for the   *)
(* widget values of the page.  Streamlit runs main() again after every     *)
(* widget change, keeps st.session_state between the runs, and forgets the *)
(* value of a widget that a run does not render.                           *)
(***************************************************************************)
\* A table: the column names and the rows, row[k] the cell of columns[k].
Table(columns, rows) == [columns |-> columns, rows |-> rows]

ColumnIndex(t, c) == CHOOSE k \in 1..Len(t.columns) : t.columns[k] = c
HasColumn(t, c) == \E k \in 1..Len(t.columns) : t.columns[k] = c

\* data[c]
Column(t, c) == [r \in 1..Len(t.rows) |-> t.rows[r][ColumnIndex(t, c)]]

\* Series.unique(): the distinct values in order of first appearance
RECURSIVE Unique(_)
Unique(q) ==
    IF q = <<>> THEN <<>>
    ELSE LET u == Unique(SubSeq(q, 1, Len(q) - 1))
             x == q[Len(q)]
         IN IF x \in Range(u) THEN u ELSE Append(u, x)

\* pd.api.types.is_numeric_dtype(data[c])
IsNumeric(t, c) == t.rows # <<>> /\ \A r \in 1..Len(t.rows) : Column(t, c)[r].t = "i"

NumbersOf(t, c) == {Column(t, c)[r].v[1] : r \in 1..Len(t.rows)}
MinOf(S) == CHOOSE x \in S : \A y \in S : x <= y
MaxOf(S) == CHOOSE x \in S : \A y \in S : y <= x

Companies == Table(<<"Company", "Rank">>,
                   << <<StrVal(<<"a">>), IntVal(1)>>, <<StrVal(<<"b">>), IntVal(2)>> >>)
People == Table(<<"Name">>, << <<StrVal(<<"d">>)>> >>)
SampleTables == {Companies, People}
Uploads ==
    {[source |-> "CSV", table |-> Companies], [source |-> "Google Sheets", table |-> People]}

\* lines 210-238: the widgets of data_filtering and the rows they keep
FilterDefault(t) ==
    LET c == t.columns[1]
    IN IF IsNumeric(t, c)
       THEN [field |-> c, kind |-> "Range", lo |-> MinOf(NumbersOf(t, c)),
             hi |-> MaxOf(NumbersOf(t, c)), values |-> {}]
       ELSE [field |-> c, kind |-> "isin", lo |-> 0, hi |-> 0, values |-> {}]

\* the values the widgets are given: for a numeric field the full range and
\* "Equal to" a number the field does not hold, for another field no
\* selection and the selection of its first value
FilterChoices(t) ==
    UNION { IF IsNumeric(t, c)
            THEN LET N == NumbersOf(t, c)
                 IN [field : {c}, kind : {"Range"}, lo : {MinOf(N)}, hi : {MaxOf(N)},
                     values : {{}}]
                    \cup [field : {c}, kind : {"eq"}, lo : {MaxOf(N) + 1}, hi : {0},
                          values : {{}}]
            ELSE [field : {c}, kind : {"isin"}, lo : {0}, hi : {0},
                  values : {{}, {Column(t, c)[1]}}]
          : c \in Range(t.columns) }

KeepsRow(f, x) ==
    CASE f.kind = "Range" -> x.v[1] >= f.lo /\ x.v[1] <= f.hi
      [] f.kind = "ge" -> x.v[1] >= f.lo
      [] f.kind = "le" -> x.v[1] <= f.hi
      [] f.kind = "eq" -> x.v[1] = f.lo
      [] f.kind = "isin" -> f.values = {} \/ x \in f.values

DataFiltering(t, f) ==
    [t EXCEPT !.rows = SelectSeq(t.rows, LAMBDA row : KeepsRow(f, row[ColumnIndex(t, f.field)]))]

\* The page: upload is what the sidebar offers (a CSV file or a sheet URL,
\* with the table behind it), the other fields are the values of the
\* widgets (None for one the last run did not render), shown is the table
\* display_and_store_results rendered.
WidgetsIdle ==
    [upload |-> None, filtering |-> FALSE, filter |-> None, dynamic |-> FALSE,
     column |-> None, template |-> None, enable |-> FALSE, shown |-> None]

TemplateInputs == {DefaultTemplate, <<>>}

\* lines 46-67: upload_data
UploadData(w, s, sheet_ok) ==
    IF w.upload = None THEN s
    ELSE IF w.upload[1].source = "CSV"
    THEN [s EXCEPT !.data = Some(w.upload[1].table), !.data_source = Some("CSV")]
    ELSE IF sheet_ok
    THEN [s EXCEPT !.data = Some(w.upload[1].table), !.data_source = Some("Google Sheets")]
    ELSE s

\* lines 83-84
GeneratedQueries(query_template, t, c) ==
    LET u == Unique(Column(t, c))
    IN [k \in 1..Len(u) |-> BuildQuery(query_template, u[k])]

\* lines 70-91: dynamic_query_input, for the values of its widgets
DynamicQueryInputMutant(s, t, checked, primary_column, query_template) ==
    IF ~checked THEN s
    ELSE LET s1 == [s EXCEPT !.selected_column = Some(primary_column)]
         IN IF query_template # <<>>
            THEN [s1 EXCEPT !.generated_queries =
                               Some(GeneratedQueries(query_template, t, primary_column))]
            ELSE s1
DynamicQueryInput(s, t, checked, primary_column, query_template) ==
    IF ~checked THEN s
    ELSE LET s1 == [s EXCEPT !.selected_column = Some(primary_column)]
         IN IF query_template # <<>>
            THEN [s1 EXCEPT !.generated_queries =
                               Some(GeneratedQueries(query_template, t, primary_column)),
                            !.query_template = Some(query_template)]
            ELSE s1

\* lines 111-151 in one piece: the loop run to its end for the outcomes outs
RECURSIVE RunLoop(_, _)
RunLoop(b, outs) ==
    IF b.i > Len(b.unique_entities) THEN b ELSE RunLoop(LoopBody(b, outs[b.i]), outs)

\* lines 94-151: automated_web_search_and_parse; the frame it ends with
ColumnCheckMutant(s, t) == s.selected_column = None
ColumnCheck(s, t) == s.selected_column = None \/ ~HasColumn(t, s.selected_column[1])

Automated(s, t, enable, clicked, outs) ==
    IF ColumnCheck(s, t)
    THEN [BatchIdle EXCEPT !.pc = "config_error", !.messages = <<<<"error", StrVal(<<>>)>>>>]
    ELSE IF s.generated_queries = None \/ s.generated_queries[1] = <<>>
    THEN [BatchIdle EXCEPT !.pc = "no_queries", !.messages = <<<<"warning", StrVal(<<>>)>>>>]
    ELSE IF ~(enable /\ clicked) THEN [BatchIdle EXCEPT !.pc = "not_run"]
    ELSE IF s.query_template = None THEN [BatchIdle EXCEPT !.pc = "crashed"]
    ELSE LET b == RunLoop(BatchStart(s.query_template[1],
                                     Unique(Column(t, s.selected_column[1]))), outs)
         IN [b EXCEPT !.pc = "done", !.messages = Append(@, <<"success", StrVal(<<>>)>>)]

\* lines 155-194: the mapping display_and_store_results renders, if any
Display(s) ==
    IF s.parsed_results # None /\ s.parsed_results[1] # <<>> THEN s.parsed_results
    ELSE None

\* what search_query and parse_results_with_llm do for the entities of a run
AppOutcomes ==
    {o \in BatchOutcomes :
        /\ Consistent(o)
        /\ o.search.exc = "none" => /\ IsListOfDicts(o.search.val)
                                    /\ o.search.val.items # <<>>
                                    /\ o.parse.exc = "none"}
\* one outcome for each row of the longest table
MaxRows == MaxOf({Len(t.rows) : t \in SampleTables})
OutcomeLists == {q \in SeqsUpTo(AppOutcomes, MaxRows) : Len(q) = MaxRows}

\* lines 241-271: main, for the page w, the session s, whether the run is
\* the one a click of the Run button starts, whether a sheet loads and what
\* the searches do.  The result is the session, the page and the frame of
\* automated_web_search_and_parse after the run.
Main(w, s, clicked, sheet_ok, outs) ==
    LET s1 == UploadData(w, s, sheet_ok)
    IN IF s1.data = None
       THEN [session |-> s1, batch |-> BatchIdle,
             widgets |-> [WidgetsIdle EXCEPT !.upload = w.upload]]
       ELSE LET data == s1.data[1]
                f == IF ~w.filtering THEN None
                     ELSE IF w.filter # None /\ w.filter[1] \in FilterChoices(data)
                     THEN w.filter
                     ELSE Some(FilterDefault(data))
                filtered_data == IF w.filtering THEN DataFiltering(data, f[1]) ELSE data
                primary_column ==
                    IF ~w.dynamic THEN None
                    ELSE IF w.column # None /\ HasColumn(data, w.column[1]) THEN w.column
                    ELSE Some(data.columns[1])
                query_template ==
                    IF ~w.dynamic THEN None
                    ELSE IF w.template # None THEN w.template
                    ELSE Some(DefaultTemplate)
                s2 == IF w.dynamic
                      THEN DynamicQueryInput(s1, filtered_data, TRUE, primary_column[1],
                                             query_template[1])
                      ELSE DynamicQueryInput(s1, filtered_data, FALSE, "", <<>>)
                b == Automated(s2, filtered_data, w.enable, clicked, outs)
                s3 == IF b.pc = "done"
                      THEN [s2 EXCEPT !.parsed_results = Some(b.results_storage)]
                      ELSE s2
            IN [session |-> s3, batch |-> b,
                widgets |-> [upload |-> w.upload, filtering |-> w.filtering, filter |-> f,
                             dynamic |-> w.dynamic, column |-> primary_column,
                             template |-> query_template,
                             enable |-> w.enable /\ b.pc \in {"not_run", "done", "crashed"},
                             shown |-> IF b.pc = "crashed" THEN None ELSE Display(s3)]]

\* a run of the script after the page changed to w
Rerun(w, clicked) ==
    \E sheet_ok \in (IF w.upload # None /\ w.upload[1].source = "Google Sheets"
                     THEN BOOLEAN ELSE {TRUE}) :
      \E outs \in (IF clicked THEN OutcomeLists ELSE {<<>>}) :
        \E r \in {Main(w, session, clicked, sheet_ok, outs)} :
           /\ session' = r.session
           /\ batch' = r.batch
           /\ widgets' = r.widgets
           /\ UNCHANGED <<sq, pl, qb>>

\* The user's moves; each starts a run.
ProvideData ==
    \E u \in Uploads :
        /\ widgets.upload # Some(u)
        /\ Rerun([widgets EXCEPT !.upload = Some(u)], FALSE)

RemoveData ==
    /\ widgets.upload # None
    /\ Rerun([widgets EXCEPT !.upload = None], FALSE)

ToggleFiltering ==
    /\ session.data # None
    /\ Rerun([widgets EXCEPT !.filtering = ~@], FALSE)

ChangeFilter ==
    /\ widgets.filtering
    /\ \E f \in FilterChoices(session.data[1]) :
        /\ widgets.filter # Some(f)
        /\ Rerun([widgets EXCEPT !.filter = Some(f)], FALSE)

ToggleDynamicQuery ==
    /\ session.data # None
    /\ Rerun([widgets EXCEPT !.dynamic = ~@], FALSE)

SelectColumn ==
    /\ widgets.dynamic
    /\ \E c \in Range(session.data[1].columns) :
        /\ widgets.column # Some(c)
        /\ Rerun([widgets EXCEPT !.column = Some(c)], FALSE)

EditTemplate ==
    /\ widgets.dynamic
    /\ \E t \in TemplateInputs :
        /\ widgets.template # Some(t)
        /\ Rerun([widgets EXCEPT !.template = Some(t)], FALSE)

EnableRendered == batch.pc \in {"not_run", "done", "crashed"}

ToggleEnable ==
    /\ EnableRendered
    /\ Rerun([widgets EXCEPT !.enable = ~@], FALSE)

ClickRun ==
    /\ EnableRendered
    /\ widgets.enable
    /\ Rerun(widgets, TRUE)

(***************************************************************************)
(* The query of one entity: src/app.py line 118 (the substitution of the   *)
(* batch loop), then src/api_call.py line 50 (search_query formats the     *)
(* string it is passed as custom_prompt).                                  *)
(***************************************************************************)
QbIdle ==
    [pc |-> "idle", query_template |-> <<>>, entity |-> StrVal(<<>>), query |-> <<>>,
     formed |-> <<>>, exc |-> "none"]

\* templates that hold the placeholder exactly once
AffixChars == {"a", "{", "}"}
Affixes == SeqsUpTo(AffixChars, MaxAffixLen)
Templates ==
    {t \in {pre \o Placeholder \o suf : pre \in Affixes, suf \in Affixes} :
        Count(t, Placeholder) = 1}

\* entity values: strings with and without braces, and ints
EntityChars == {"A", "{", "}"}
QbEntities ==
    {StrVal(e) : e \in SeqsUpTo(EntityChars, MaxEntityLen) \ {<<>>}}
        \cup {IntVal(7), IntVal(10)}

\* app.py line 118
QbBuild ==
    /\ qb.pc = "called"
    /\ qb' = [qb EXCEPT !.pc = "built",
                        !.query = BuildQuery(qb.query_template, qb.entity)]
    /\ UNCHANGED <<sq, pl, batch, session, widgets>>

\* app.py line 123 and api_call.py line 50
QbFormat ==
    /\ qb.pc = "built"
    /\ LET q == Format(qb.query, qb.entity)
       IN qb' = [qb EXCEPT !.pc = "done", !.formed = q.val, !.exc = q.exc]
    /\ UNCHANGED <<sq, pl, batch, session, widgets>>

InitQuery ==
    /\ qb \in {[QbIdle EXCEPT !.pc = "called", !.query_template = t, !.entity = e] :
                  t \in Templates, e \in QbEntities}
    /\ sq = SqIdle
    /\ pl = PlIdle
    /\ batch = BatchIdle
    /\ session = SessionInit
    /\ widgets = WidgetsIdle

NextQuery == QbBuild \/ QbFormat

SpecQuery == InitQuery /\ [][NextQuery]_vars

OldResults == <<<<StrVal(<<"z">>), NoResultsMessage>>>>

InitBatch ==
    /\ batch \in {BatchStart(DefaultTemplate, q) : q \in EntityLists}
    /\ session \in {[SessionInit EXCEPT !.parsed_results = r] :
                        r \in {None, Some(OldResults)}}
    /\ sq = SqIdle
    /\ pl = PlIdle
    /\ qb = QbIdle
    /\ widgets = WidgetsIdle

NextBatch == BatchIterate \/ BatchFinish

SpecBatch == InitBatch /\ [][NextBatch]_vars

Init ==
    /\ session = SessionInit
    /\ widgets = WidgetsIdle
    /\ batch = BatchIdle
    /\ sq = SqIdle
    /\ pl = PlIdle
    /\ qb = QbIdle

Next ==
    \/ ProvideData
    \/ RemoveData
    \/ ToggleFiltering
    \/ ChangeFilter
    \/ ToggleDynamicQuery
    \/ SelectColumn
    \/ EditTemplate
    \/ ToggleEnable
    \/ ClickRun

Spec == Init /\ [][Next]_vars

InitSearch ==
    /\ sq \in {SqCall(e, p, m) : e \in SqEntities, p \in SqPrompts, m \in SqMaxRetries}
    /\ pl = PlIdle
    /\ qb = QbIdle
    /\ batch = BatchIdle
    /\ session = SessionInit
    /\ widgets = WidgetsIdle

NextSearch == SqEnter \/ SqAttempt \/ SqExhausted

SpecSearch == InitSearch /\ [][NextSearch]_vars

InitParse ==
    /\ pl \in {[PlIdle EXCEPT !.pc = "called", !.results = r] : r \in ResultLists}
    /\ sq = SqIdle
    /\ qb = QbIdle
    /\ batch = BatchIdle
    /\ session = SessionInit
    /\ widgets = WidgetsIdle

NextParse == PlEnter \/ PlCallLlm \/ PlFinish

SpecParse == InitParse /\ [][NextParse]_vars

(***************************************************************************)
(* Properties of search_query.                                             *)
(***************************************************************************)
RECURSIVE Pow2(_)
Pow2(n) == IF n = 0 THEN 1 ELSE 2 * Pow2(n - 1)

RECURSIVE SumSeq(_)
SumSeq(q) == IF q = <<>> THEN 0 ELSE q[1] + SumSeq(Tail(q))

AllFailed(h) == \A i \in 1..Len(h) : h[i] = "fail"
FailuresThenSuccess(h) ==
    /\ Len(h) >= 1
    /\ h[Len(h)] = "ok"
    /\ AllFailed(SubSeq(h, 1, Len(h) - 1))

\* C2: with max_retries >= 1 and every request failing, search_query makes
\* exactly max_retries requests, then logs an error and returns the empty
\* list; it never makes more than max_retries requests and a failed request
\* is never followed by a raise.
C2_AllFailReturnsEmptyAfterMaxRetries ==
    /\ sq.calls <= sq.max_retries
    /\ (sq.pc = "raised" /\ sq.at = "attempt") => ~AllFailed(sq.hist)
    /\ (sq.pc = "returned" /\ sq.max_retries >= 1 /\ AllFailed(sq.hist))
          => /\ sq.calls = sq.max_retries
             /\ Len(sq.hist) = sq.max_retries
             /\ sq.log # <<>> /\ sq.log[Len(sq.log)] = "error"
             /\ Len(SelectSeq(sq.log, LAMBDA l : l = "error")) = 1
             /\ sq.ret = <<>>

C2_Witness ==
    /\ sq.pc = "returned"
    /\ sq.max_retries = DefaultMaxRetries
    /\ AllFailed(sq.hist)
    /\ sq.calls = DefaultMaxRetries

IsEmailAt(s, i) ==
    /\ i + 4 <= Len(s)
    /\ s[i] \in {"e", "E"}
    /\ s[i + 1] \in {"m", "M"}
    /\ s[i + 2] \in {"a", "A"}
    /\ s[i + 3] \in {"i", "I"}
    /\ s[i + 4] \in {"l", "L"}

MentionsEmail(s) == \E i \in 1..Len(s) : IsEmailAt(s, i)

ResultOfBlock(entity, b) ==
    [entity |-> entity,
     title |-> IF b.h3 = None THEN NoTitle ELSE b.h3[1],
     link |-> IF b.a = None THEN NoLink ELSE b.a[1][1],
     snippet |-> IF b.snip = None THEN NoSnippet ELSE b.snip[1]]

ExpectedResults(entity, page) ==
    LET n == IF Len(page) < 5 THEN Len(page) ELSE 5
        kept == SelectSeq(SubSeq(page, 1, n),
                          LAMBDA b : MentionsEmail(IF b.snip = None THEN NoSnippet
                                                   ELSE b.snip[1]))
    IN [i \in 1..Len(kept) |-> ResultOfBlock(entity, kept[i])]

IsSuffix(a, b) == Len(a) <= Len(b) /\ SubSeq(b, Len(b) - Len(a) + 1, Len(b)) = a

PlAnswered == pl.pc = "done" /\ pl.outcome # None /\ ~pl.outcome[1].raised
PlModelRaised == pl.pc = "done" /\ pl.outcome # None /\ pl.outcome[1].raised
PlLast == pl.results[Len(pl.results)]

\* C5: for a non-empty result list and a model answer that the email pattern
\* matches or that holds "@", parse_results_with_llm returns the answer, then
\* the first match, then the last result's link and snippet: never the
\* caveat-annotated string, never the parsing-error string.
C5_AtSignOrMatchTakesSuccessPath ==
    (PlAnswered /\ (FindAll(pl.outcome[1].answer) # <<>>
                       \/ "@" \in Range(pl.outcome[1].answer)))
        => LET answer == pl.outcome[1].answer
               m == FindAll(answer)
           IN /\ pl.ret # ErrorMessage
              /\ ~IsSuffix(Caveat, pl.ret)
              /\ pl.ret = answer \o (IF m = <<>> THEN <<>> ELSE m[1])
                             \o PlLast.link \o PlLast.snippet

\* C6 as stated: when the model invocation raises, the value returned is the
\* fixed "Error during parsing of results." message.
C6_ModelErrorGivesParsingError == PlModelRaised => pl.ret = ErrorMessage

\* C6 as amended: when the model invocation raises, call_llm_with_huggingface
\* returns its fixed failure message and parse_results_with_llm returns that
\* message, the last result's link and snippet and the caveat; the parsing-
\* error message is returned only for an answer that holds "@" and no match
\* of the email pattern; once the model is asked no exception propagates.
C6_ModelErrorGivesCaveatedFailure ==
    /\ PlModelRaised
          => /\ pl.response[1] = Ok(FailedMessage)
             /\ pl.ret = FailedMessage \o PlLast.link \o PlLast.snippet \o Caveat
    /\ (pl.pc = "done" /\ pl.ret = ErrorMessage)
          => /\ PlAnswered
             /\ "@" \in Range(pl.outcome[1].answer)
             /\ FindAll(pl.outcome[1].answer) = <<>>
    /\ pl.asked # None => pl.pc # "raised"

C6_Witness ==
    /\ PlModelRaised
    /\ Len(pl.results) = 2
    /\ PlLast = R2

(***************************************************************************)
(* Properties of the query built for one entity.                           *)
(***************************************************************************)
\* C9: for a template that holds {entity} exactly once and an entity E, the
\* query built for E (the substitution of the batch loop, then the query
\* search_query forms from it) holds no placeholder and holds str(E).
C9_QueryHoldsEntityAndNoPlaceholder ==
    qb.pc = "done"
        => /\ qb.exc = "none"
           /\ ~Contains(qb.formed, Placeholder)
           /\ Contains(qb.formed, Str(qb.entity))

(***************************************************************************)
(* Properties of the batch loop.                                           *)
(***************************************************************************)
\* the entities whose search returned a list of dicts and whose extraction
\* returned, with what it returned, in the order met
RECURSIVE ExpectedStorage(_, _, _)
ExpectedStorage(entities, outcomes, k) ==
    IF k > Len(outcomes) THEN <<>>
    ELSE LET o == outcomes[k]
             good == /\ o.search.exc = "none"
                     /\ o.search.val.type = "list"
                     /\ \A n \in 1..Len(o.search.val.items) : o.search.val.items[n].isdict
                     /\ o.parse.exc = "none"
         IN (IF good THEN <<<<entities[k], o.parse.val>>>> ELSE <<>>)
                \o ExpectedStorage(entities, outcomes, k + 1)

\* C1: whatever search_query and parse_results_with_llm do for each entity,
\* the loop passes every distinct entity to search_query exactly once, in
\* column order, an earlier failure never ends it, and the mapping stored
\* holds exactly the entities whose search returned a list of dicts and
\* whose extraction returned.
C1_BatchIsolatesFailures ==
    /\ batch.pc \in {"loop", "done"}
          => /\ batch.i <= Len(batch.unique_entities) + 1
             /\ [k \in 1..Len(batch.searched) |-> batch.searched[k][1]]
                   = SubSeq(batch.unique_entities, 1, batch.i - 1)
             /\ batch.results_storage
                   = ExpectedStorage(batch.unique_entities, batch.outcomes, 1)
    /\ batch.pc = "done"
          => /\ Len(batch.searched) = Len(batch.unique_entities)
             /\ session.parsed_results = Some(batch.results_storage)

C1_Witness ==
    /\ batch.pc = "done"
    /\ Len(batch.unique_entities) = 3
    /\ batch.outcomes[1].search.exc # "none"
    /\ batch.outcomes[2].search.exc = "none"
    /\ batch.outcomes[2].search.val.type # "list"
    /\ batch.outcomes[3].search.exc = "none"
    /\ batch.outcomes[3].parse.exc = "none"
    /\ DictKeys(session.parsed_results[1]) = <<batch.unique_entities[3]>>

(***************************************************************************)
(* Properties of the dashboard.                                            *)
(***************************************************************************)
\* the session's entity column is unset or is not a column of its table
InvalidColumn(s) ==
    s.selected_column = None
        \/ \A k \in 1..Len(s.data[1].columns) : s.data[1].columns[k] # s.selected_column[1]

IsEmptyMapping(r) == r = None \/ r[1] = <<>>

\* C8 as stated: after a run that found the entity column unset or not a
\* column of the table, the configuration error is reported, no search and
\* no model call was made, and the result mapping of the session is empty.
C8_ConfigErrorLeavesEmptyMapping ==
    (session.data # None /\ InvalidColumn(session))
        => /\ batch.pc = "config_error"
           /\ batch.searched = <<>>
           /\ batch.parsed = <<>>
           /\ IsEmptyMapping(session.parsed_results)
           /\ widgets.shown = None

\* C8 as amended: a run that finds the entity column unset or not a column
\* of the table reports the configuration error, makes no search and no
\* model call, and leaves the result mapping of the session as it was: what
\* is shown afterwards is what the earlier runs stored.
C8_ConfigErrorKeepsStoredMapping ==
    [][(session'.data # None /\ InvalidColumn(session'))
          => /\ batch'.pc = "config_error"
             /\ batch'.messages = <<<<"error", StrVal(<<>>)>>>>
             /\ batch'.searched = <<>>
             /\ batch'.parsed = <<>>
             /\ session'.parsed_results = session.parsed_results
             /\ widgets'.shown = (IF IsEmptyMapping(session.parsed_results)
                                  THEN None ELSE session.parsed_results)]_vars

C8_Witness ==
    /\ batch.pc = "config_error"
    /\ session.data # None
    /\ session.selected_column # None
    /\ InvalidColumn(session)
    /\ ~IsEmptyMapping(session.parsed_results)
    /\ widgets.shown = session.parsed_results

\* C10: every query a run passes to search_query is an element of the
\* generated_queries list the session holds at that moment.
C10_DispatchedQueriesWereGenerated ==
    \A k \in 1..Len(batch.searched) :
        /\ session.generated_queries # None
        /\ \E n \in 1..Len(session.generated_queries[1]) :
              session.generated_queries[1][n] = batch.searched[k][2]

\* C11: in every state the reruns of the dashboard reach, a non-empty
\* generated_queries comes with a query_template that is a non-empty string
\* and a selected_column that is set, so a run that passes the guard on
\* generated_queries never substitutes into a null template.
C11_GeneratedQueriesHaveTemplateAndColumn ==
    /\ (session.generated_queries # None /\ session.generated_queries[1] # <<>>)
          => /\ session.query_template # None
             /\ session.query_template[1] # <<>>
             /\ session.selected_column # None
    /\ batch.pc # "crashed"
    /\ batch.pc = "done" => batch.query_template # <<>>

C11_Witness ==
    /\ batch.pc = "done"
    /\ batch.searched # <<>>
    /\ session.generated_queries # None
    /\ session.generated_queries[1] # <<>>
    /\ widgets.template = Some(<<>>)
    /\ batch.query_template = session.query_template[1]

=============================================================================
